---- MODULE Spec2Model ----
(***************************************************************************)
(* Model of potodo/potodo.py: threshold normalisation                      *)
(* (initialize_arguments), the per-file filter and descriptor builder      *)
(* (buffer_add), the per-directory aggregation (print_dir_stats,           *)
(* add_dir_stats) and the driver loop of exec_potodo.                      *)
(*                                                                         *)
(* Percentages are kept in hundredths of a percent (12.5% is 1250), so     *)
(* that the float comparisons against the integer thresholds and the       *)
(* two-decimal formatting of the mean are exact integer arithmetic.        *)
(* An optional argument (argparse gives None when the flag is absent) is   *)
(* a set: {} when absent, {v} when supplied.                               *)
(***************************************************************************)
EXTENDS Integers, Sequences, FiniteSets, TLC

VARIABLES
    argv,               \* the arguments exec_potodo is called with (never reassigned)
    above,              \* exec_potodo's local `above` after initialize_arguments
    below,              \* exec_potodo's local `below` after initialize_arguments
    issue_reservations, \* exec_potodo's local reservation map
    fetch_calls,        \* number of calls of get_reservation_list so far
    po_files_and_dirs,  \* the mapping returned by get_po_files_from_repo
    dir_queue,          \* directories the outer for loop still has to visit
    directory_name,     \* the outer loop variable
    po_queue,           \* files the inner for loop still has to visit
    buffer,             \* per-directory list of shown descriptors
    folder_stats,       \* per-directory list of percentages
    printed_list,       \* per-directory list of shown/hidden flags
    dir_stats,          \* JSON mode: records of the reportable directories
    stdout,             \* the print calls made so far, in order
    buffer_add_calls,   \* number of buffer_add calls made for the current directory
    error,              \* the exception that ended the run, "" if none
    pc                  \* position in exec_potodo

vars == <<argv, above, below, issue_reservations, fetch_calls, po_files_and_dirs,
          dir_queue, directory_name, po_queue, buffer, folder_stats, printed_list,
          dir_stats, stdout, buffer_add_calls, error, pc>>

(***************************************************************************)
(* Bounds and input domains                                                *)
(***************************************************************************)
\* the largest number of .po files in the whole repository
MaxFiles == 3

\* the default thresholds substituted by initialize_arguments
DefaultAbove == 0
DefaultBelow == 100

\* values of --above and --below that are tried ({} is "flag absent")
AboveArgs == {{}, {-1}, {0}, {50}, {100}}
BelowArgs == {{}, {-1}, {0}, {25}, {50}}

\* directory names, as their rank in lexicographic order
DirNames == {1, 2}

\* The statistics of the .po files that may occur in a directory.  filename
\* is the file's rank in the ordering of PoFileStats; fuzzy_entries and
\* untranslated_entries are given by their lengths; label is the spelling of
\* the file name used in filename_dir.
PoFileSamples ==
    { [filename |-> 1, label |-> "A.po", po_file_size |-> 4, translated_nb |-> 4,
       fuzzy_entries |-> 0, untranslated_entries |-> 0],
      [filename |-> 2, label |-> "B.po", po_file_size |-> 4, translated_nb |-> 2,
       fuzzy_entries |-> 1, untranslated_entries |-> 1],
      [filename |-> 3, label |-> "c.po", po_file_size |-> 8, translated_nb |-> 1,
       fuzzy_entries |-> 0, untranslated_entries |-> 7],
      [filename |-> 4, label |-> "d.po", po_file_size |-> 0, translated_nb |-> 0,
       fuzzy_entries |-> 0, untranslated_entries |-> 0],
      [filename |-> 5, label |-> "e.po", po_file_size |-> 4, translated_nb |-> 3,
       fuzzy_entries |-> 1, untranslated_entries |-> 0] }

\* spelling of a directory name as it occurs in filename_dir
DirLabel(d) == IF d = 1 THEN "Library" ELSE "tutorial"

\* str.lower() on the spellings above
Lower(s) ==
    CASE s = "Library" -> "library"
      [] s = "A.po" -> "a.po"
      [] s = "B.po" -> "b.po"
      [] OTHER -> s

\* PoFileStats.percent_translated, in hundredths of a percent: translated /
\* total * 100, a file without entries counting as fully translated
PercentTranslated(translated_nb, po_file_size) ==
    IF po_file_size = 0 THEN 10000 ELSE (translated_nb * 10000) \div po_file_size

\* the PoFileStats object of sample s found in directory d
PoFileStats(d, s) ==
    [directory |-> d, filename |-> s.filename,
     filename_dir |-> <<DirLabel(d), s.label>>,
     path |-> <<d, s.filename>>,
     po_file_size |-> s.po_file_size, translated_nb |-> s.translated_nb,
     fuzzy_nb |-> s.fuzzy_entries, fuzzy_entries |-> s.fuzzy_entries,
     untranslated_entries |-> s.untranslated_entries,
     percent_translated |-> PercentTranslated(s.translated_nb, s.po_file_size)]

\* the results get_po_files_from_repo may give: every directory with a set
\* of files, at most MaxFiles files in all
Repos ==
    { r \in [DirNames -> SUBSET PoFileSamples] :
        Cardinality(r[1]) + Cardinality(r[2]) <= MaxFiles }

\* the mapping get_reservation_list gives when it succeeds: keys are
\* lowercased directory/file names
ReservationSample == (<<"library", "b.po">> :> "alice") @@ (<<"tutorial", "c.po">> :> "bob")

\* the empty mapping {}
EmptyMap == [k \in {} |-> ""]

(***************************************************************************)
(* Helpers for Python semantics                                            *)
(***************************************************************************)
\* the value of a supplied argument
Val(opt) == CHOOSE v \in opt : TRUE

\* Python truthiness of an int-or-None: None and 0 are false
Truthy(opt) == opt # {} /\ opt # {0}

\* dict.get(key, None): {} stands for None
DictGet(map, key) == IF key \in DOMAIN map THEN {map[key]} ELSE {}

\* sum of a sequence of integers
RECURSIVE SumSeq(_)
SumSeq(s) == IF s = <<>> THEN 0 ELSE Head(s) + SumSeq(Tail(s))

\* sorted() of a set of integers
RECURSIVE SortedInts(_)
SortedInts(S) ==
    IF S = {} THEN <<>>
    ELSE LET m == CHOOSE x \in S : \A y \in S : x <= y
         IN <<m>> \o SortedInts(S \ {m})

\* sorted(po_files) with the order reversed
RECURSIVE SortedFilesDescending(_)
SortedFilesDescending(S) ==
    IF S = {} THEN <<>>
    ELSE LET m == CHOOSE x \in S : \A y \in S : x.filename >= y.filename
         IN <<m>> \o SortedFilesDescending(S \ {m})

\* sorted(po_files): ascending in the ordering of PoFileStats
RECURSIVE SortedFiles(_)
SortedFiles(S) ==
    IF S = {} THEN <<>>
    ELSE LET m == CHOOSE x \in S : \A y \in S : x.filename <= y.filename
         IN <<m>> \o SortedFiles(S \ {m})

\* f"{x:.2f}" of the quotient num / den, as a number of hundredths when num
\* is in hundredths: round to nearest, ties to even
RoundHalfEven(num, den) ==
    LET q == num \div den
        r == num % den
    IN IF 2 * r < den THEN q
       ELSE IF 2 * r > den THEN q + 1
       ELSE IF q % 2 = 0 THEN q ELSE q + 1

\* f"{statistics.mean(folder_stats):.2f}", in hundredths of a percent.
\* statistics.mean raises StatisticsError on an empty list; callers test
\* for that case before using this value.
MeanFormat2f(stats) == RoundHalfEven(SumSeq(stats), Len(stats))

\* f"{percent_translated:5.1f}", in tenths of a percent
Format1f(pct) == RoundHalfEven(pct, 10)

(***************************************************************************)
(* initialize_arguments                                                    *)
(***************************************************************************)
\* the local `above` after lines 23-25
NormalizeAbove(a) == IF ~Truthy(a) THEN DefaultAbove ELSE Val(a)

\* the local `below` after lines 26-28
NormalizeBelow(b) == IF ~Truthy(b) THEN DefaultBelow ELSE Val(b)

\* lines 30-34: the condition under which ValueError is raised, on the
\* locals after defaulting (`if above and below` tests them for non-zero)
RaisesValueError(a, b) ==
    LET a1 == NormalizeAbove(a)
        b1 == NormalizeBelow(b)
    IN (a1 # 0 /\ b1 # 0) /\ b1 < a1

\* line 36 with `or` in place of `and`
FetchesReservationsOr(offline, hide_reserved) == ~offline \/ ~hide_reserved

\* line 36: whether get_reservation_list is called
FetchesReservations(offline, hide_reserved) == ~offline /\ ~hide_reserved

(***************************************************************************)
(* buffer_add                                                              *)
(***************************************************************************)
\* lines 156-158 without the test for a completely translated file
HiddenForgetsComplete(po_file_stats, a, b) ==
    \/ po_file_stats.percent_translated < a * 100
    \/ po_file_stats.percent_translated > b * 100

\* lines 156-158: the file is not to be shown
Hidden(po_file_stats, a, b) ==
    \/ po_file_stats.percent_translated = 100 * 100
    \/ po_file_stats.percent_translated < a * 100
    \/ po_file_stats.percent_translated > b * 100

\* lines 161-168 without the append to folder_stats
HiddenResultNoStats(buf, stats, printed, po_file_stats, json_format) ==
    [buffer |-> buf,
     folder_stats |-> stats,
     printed_list |-> IF ~json_format THEN Append(printed, FALSE) ELSE printed]

\* lines 161-168 with the append to folder_stats moved under `if not json_format`
HiddenResultJsonNoStats(buf, stats, printed, po_file_stats, json_format) ==
    [buffer |-> buf,
     folder_stats |-> IF ~json_format
                      THEN Append(stats, po_file_stats.percent_translated) ELSE stats,
     printed_list |-> IF ~json_format THEN Append(printed, FALSE) ELSE printed]

\* lines 161-168: what the early return leaves in the three lists
HiddenResult(buf, stats, printed, po_file_stats, json_format) ==
    [buffer |-> buf,
     folder_stats |-> Append(stats, po_file_stats.percent_translated),
     printed_list |-> IF ~json_format THEN Append(printed, FALSE) ELSE printed]

\* lines 170-201: the descriptor of a shown file
Descriptor(po_file_stats, reservations, counts, json_format) ==
    LET fuzzy_nb == IF po_file_stats.fuzzy_entries > 0 THEN po_file_stats.fuzzy_nb ELSE 0
        translated_nb == po_file_stats.translated_nb
        po_file_size == po_file_stats.po_file_size
        percent_translated == po_file_stats.percent_translated
        key == <<Lower(po_file_stats.filename_dir[1]), Lower(po_file_stats.filename_dir[2])>>
        reserved_by == DictGet(reservations, key)
    IN IF json_format
       THEN [name |-> <<po_file_stats.directory, po_file_stats.filename>>,
             path |-> po_file_stats.path, entries |-> po_file_size,
             fuzzies |-> fuzzy_nb, translated |-> translated_nb,
             pc_translated |-> percent_translated, reserved_by |-> reserved_by]
       ELSE IF counts
       THEN [filename |-> po_file_stats.filename,
             missing |-> po_file_stats.fuzzy_entries + po_file_stats.untranslated_entries,
             fuzzies |-> fuzzy_nb, reserved_by |-> reserved_by]
       ELSE [filename |-> po_file_stats.filename,
             translated |-> translated_nb, entries |-> po_file_size,
             percent |-> Format1f(percent_translated),
             fuzzies |-> fuzzy_nb, reserved_by |-> reserved_by]

\* lines 203-208 without the append to folder_stats
ShownResultNoStats(buf, stats, printed, po_file_stats, desc) ==
    [buffer |-> Append(buf, desc),
     folder_stats |-> stats,
     printed_list |-> Append(printed, TRUE)]

\* lines 203-208: what a shown file leaves in the three lists
ShownResult(buf, stats, printed, po_file_stats, desc) ==
    [buffer |-> Append(buf, desc),
     folder_stats |-> Append(stats, po_file_stats.percent_translated),
     printed_list |-> Append(printed, TRUE)]

\* buffer_add as a whole: the three lists after the call
BufferAdd(buf, stats, printed, po_file_stats, reservations, a, b, counts, json_format) ==
    IF Hidden(po_file_stats, a, b)
    THEN HiddenResult(buf, stats, printed, po_file_stats, json_format)
    ELSE ShownResult(buf, stats, printed, po_file_stats,
                     Descriptor(po_file_stats, reservations, counts, json_format))

\* line 113: the file passes the fuzzy-only filter
PassesFuzzyFilter(fuzzy, po_file) == ~fuzzy \/ po_file.fuzzy_entries > 0

(***************************************************************************)
(* print_dir_stats and add_dir_stats                                       *)
(***************************************************************************)
\* line 53 testing only that printed_list is not empty
PrintedListNotEmpty(printed) == printed # <<>>

\* line 53, `True in printed_list`
TrueInPrintedList(printed) == \E i \in DOMAIN printed : printed[i] = TRUE

\* line 67, `any(printed_list)`
AnyPrinted(printed) == \E i \in DOMAIN printed : printed[i]

\* print_dir_stats: the print calls it makes, or the StatisticsError of
\* statistics.mean on an empty list
PrintDirStats(dir, buf, stats, printed) ==
    IF TrueInPrintedList(printed)
    THEN IF stats = <<>>
         THEN [raises |-> TRUE, out |-> <<>>]
         ELSE [raises |-> FALSE,
               out |-> << [kind |-> "header", directory_name |-> dir,
                           mean |-> MeanFormat2f(stats)],
                          [kind |-> "lines", lines |-> buf] >>]
    ELSE [raises |-> FALSE, out |-> <<>>]

\* add_dir_stats: all_stats after the call, or the StatisticsError of
\* statistics.mean on an empty list
AddDirStats(dir, buf, stats, printed, all_stats) ==
    IF AnyPrinted(printed)
    THEN IF stats = <<>>
         THEN [raises |-> TRUE, all_stats |-> all_stats]
         ELSE [raises |-> FALSE,
               all_stats |-> Append(all_stats,
                                    [name |-> <<dir, "/">>,
                                     pc_translated |-> MeanFormat2f(stats),
                                     files |-> buf])]
    ELSE [raises |-> FALSE, all_stats |-> all_stats]

\* line 135: the one print call of JSON mode
JsonDump(all_stats) == <<[kind |-> "json", doc |-> all_stats]>>

(***************************************************************************)
(* exec_potodo, step by step                                               *)
(***************************************************************************)
ArgvSpace ==
    [above : AboveArgs, below : BelowArgs, fuzzy : BOOLEAN, offline : BOOLEAN,
     hide_reserved : BOOLEAN, counts : BOOLEAN, json_format : BOOLEAN]

Init ==
    /\ argv \in ArgvSpace
    /\ above = argv.above
    /\ below = argv.below
    /\ issue_reservations = EmptyMap
    /\ fetch_calls = 0
    /\ po_files_and_dirs = [d \in DirNames |-> {}]
    /\ dir_queue = <<>>
    /\ directory_name = 0
    /\ po_queue = <<>>
    /\ buffer = <<>>
    /\ folder_stats = <<>>
    /\ printed_list = <<>>
    /\ dir_stats = <<>>
    /\ stdout = <<>>
    /\ buffer_add_calls = 0
    /\ error = ""
    /\ pc = "initialize_arguments"

\* lines 97-99, the call of initialize_arguments (lines 23-42).  The outcome
\* of get_reservation_list is the external collaborator's: it returns a
\* mapping or raises.
InitializeArguments ==
    /\ pc = "initialize_arguments"
    /\ IF RaisesValueError(argv.above, argv.below)
       THEN /\ error' = "ValueError"
            /\ pc' = "raised"
            /\ UNCHANGED <<above, below, issue_reservations, fetch_calls>>
       ELSE IF FetchesReservations(argv.offline, argv.hide_reserved)
       THEN /\ fetch_calls' = fetch_calls + 1
            /\ \E failed \in BOOLEAN :
                 IF ~failed
                 THEN /\ issue_reservations' = ReservationSample
                      /\ above' = {NormalizeAbove(argv.above)}
                      /\ below' = {NormalizeBelow(argv.below)}
                      /\ pc' = "get_po_files"
                      /\ UNCHANGED error
                 ELSE /\ error' = "ReservationUnavailable"
                      /\ pc' = "raised"
                      /\ UNCHANGED <<above, below, issue_reservations>>
       ELSE /\ issue_reservations' = EmptyMap
            /\ above' = {NormalizeAbove(argv.above)}
            /\ below' = {NormalizeBelow(argv.below)}
            /\ pc' = "get_po_files"
            /\ UNCHANGED <<error, fetch_calls>>
    /\ UNCHANGED <<argv, po_files_and_dirs, dir_queue, directory_name, po_queue, buffer,
                   folder_stats, printed_list, dir_stats, stdout, buffer_add_calls>>

\* lines 102-105: get_po_files_from_repo, dir_stats = [] and the sorted
\* directory order of the outer loop
GetPoFiles ==
    /\ pc = "get_po_files"
    /\ \E repo \in Repos :
         /\ po_files_and_dirs' = [d \in DirNames |-> {PoFileStats(d, s) : s \in repo[d]}]
         /\ dir_queue' = SortedInts(DOMAIN repo)
    /\ dir_stats' = <<>>
    /\ pc' = "directories"
    /\ UNCHANGED <<argv, above, below, issue_reservations, fetch_calls, directory_name,
                   po_queue, buffer, folder_stats, printed_list, stdout,
                   buffer_add_calls, error>>

\* lines 105-111: the outer loop takes the next directory, resets the three
\* lists and sorts the directory's files
NextDirectory ==
    /\ pc = "directories"
    /\ dir_queue # <<>>
    /\ directory_name' = Head(dir_queue)
    /\ dir_queue' = Tail(dir_queue)
    /\ buffer' = <<>>
    /\ folder_stats' = <<>>
    /\ printed_list' = <<>>
    /\ buffer_add_calls' = 0
    /\ po_queue' = SortedFiles(po_files_and_dirs[Head(dir_queue)])
    /\ pc' = "files"
    /\ UNCHANGED <<argv, above, below, issue_reservations, fetch_calls, po_files_and_dirs,
                   dir_stats, stdout, error>>

\* lines 111-124: one iteration of the inner loop
ProcessFile ==
    /\ pc = "files"
    /\ po_queue # <<>>
    /\ LET po_file == Head(po_queue)
           r == BufferAdd(buffer, folder_stats, printed_list, po_file, issue_reservations,
                          Val(above), Val(below), argv.counts, argv.json_format)
       IN IF PassesFuzzyFilter(argv.fuzzy, po_file)
          THEN /\ buffer' = r.buffer
               /\ folder_stats' = r.folder_stats
               /\ printed_list' = r.printed_list
               /\ buffer_add_calls' = buffer_add_calls + 1
          ELSE UNCHANGED <<buffer, folder_stats, printed_list, buffer_add_calls>>
    /\ po_queue' = Tail(po_queue)
    /\ UNCHANGED <<argv, above, below, issue_reservations, fetch_calls, po_files_and_dirs,
                   dir_queue, directory_name, dir_stats, stdout, error, pc>>

\* lines 129-132: the inner loop is over; the directory is printed or stored
EndDirectory ==
    /\ pc = "files"
    /\ po_queue = <<>>
    /\ IF argv.json_format
       THEN LET r == AddDirStats(directory_name, buffer, folder_stats, printed_list, dir_stats)
            IN /\ dir_stats' = r.all_stats
               /\ error' = IF r.raises THEN "StatisticsError" ELSE error
               /\ pc' = IF r.raises THEN "raised" ELSE "directories"
               /\ UNCHANGED stdout
       ELSE LET r == PrintDirStats(directory_name, buffer, folder_stats, printed_list)
            IN /\ stdout' = stdout \o r.out
               /\ error' = IF r.raises THEN "StatisticsError" ELSE error
               /\ pc' = IF r.raises THEN "raised" ELSE "directories"
               /\ UNCHANGED dir_stats
    /\ UNCHANGED <<argv, above, below, issue_reservations, fetch_calls, po_files_and_dirs,
                   dir_queue, directory_name, po_queue, buffer, folder_stats,
                   printed_list, buffer_add_calls>>

\* lines 134-135: the outer loop is over; JSON mode prints its document
Finish ==
    /\ pc = "directories"
    /\ dir_queue = <<>>
    /\ stdout' = IF argv.json_format THEN stdout \o JsonDump(dir_stats) ELSE stdout
    /\ pc' = "done"
    /\ UNCHANGED <<argv, above, below, issue_reservations, fetch_calls, po_files_and_dirs,
                   dir_queue, directory_name, po_queue, buffer, folder_stats,
                   printed_list, dir_stats, buffer_add_calls, error>>

Next ==
    \/ InitializeArguments
    \/ GetPoFiles
    \/ NextDirectory
    \/ ProcessFile
    \/ EndDirectory
    \/ Finish

Spec == Init /\ [][Next]_vars

(***************************************************************************)
(* exec_potodo as a function of its inputs: the print calls of a whole run *)
(* that gets past initialize_arguments                                     *)
(***************************************************************************)
\* lines 111-124: the three lists after the inner loop over `queue`
RECURSIVE FilesLoop(_, _, _)
FilesLoop(queue, lists, cfg) ==
    IF queue = <<>> THEN lists
    ELSE FilesLoop(Tail(queue),
                   IF PassesFuzzyFilter(cfg.fuzzy, Head(queue))
                   THEN BufferAdd(lists.buffer, lists.folder_stats, lists.printed_list,
                                  Head(queue), cfg.reservations, cfg.above, cfg.below,
                                  cfg.counts, cfg.json_format)
                   ELSE lists,
                   cfg)

\* lines 105-132: stdout and dir_stats after the outer loop over `queue`
RECURSIVE DirsLoop(_, _, _, _)
DirsLoop(queue, repo, acc, cfg) ==
    IF queue = <<>> \/ acc.raised THEN acc
    ELSE LET dir == Head(queue)
             l == FilesLoop(SortedFiles(repo[dir]),
                            [buffer |-> <<>>, folder_stats |-> <<>>, printed_list |-> <<>>],
                            cfg)
             a == AddDirStats(dir, l.buffer, l.folder_stats, l.printed_list, acc.dir_stats)
             p == PrintDirStats(dir, l.buffer, l.folder_stats, l.printed_list)
         IN DirsLoop(Tail(queue), repo,
                     IF cfg.json_format
                     THEN [stdout |-> acc.stdout, dir_stats |-> a.all_stats,
                           raised |-> a.raises]
                     ELSE [stdout |-> acc.stdout \o p.out, dir_stats |-> acc.dir_stats,
                           raised |-> p.raises],
                     cfg)

\* lines 104-135: everything exec_potodo prints for the mapping `repo`
ExecPotodo(repo, cfg) ==
    LET acc == DirsLoop(SortedInts(DOMAIN repo), repo,
                        [stdout |-> <<>>, dir_stats |-> <<>>, raised |-> FALSE], cfg)
    IN IF acc.raised THEN acc.stdout
       ELSE IF cfg.json_format THEN acc.stdout \o JsonDump(acc.dir_stats)
       ELSE acc.stdout

(***************************************************************************)
(* Vocabulary of the properties                                            *)
(***************************************************************************)
\* the run got past initialize_arguments, so `above` and `below` hold the
\* thresholds it returned
Normalized == pc \in {"get_po_files", "directories", "files", "done"}

\* the arguments of the run, as FilesLoop and DirsLoop take them
RunCfg(json_format) ==
    [above |-> Val(above), below |-> Val(below), fuzzy |-> argv.fuzzy,
     counts |-> argv.counts, json_format |-> json_format,
     reservations |-> issue_reservations]

\* the file passed the fuzzy-only filter
PassedFuzzy(f) == ~argv.fuzzy \/ f.fuzzy_entries > 0

\* the file is strictly incomplete and inside the band [above, below]
InBand(f) ==
    /\ f.percent_translated < 10000
    /\ Val(above) * 100 <= f.percent_translated
    /\ f.percent_translated <= Val(below) * 100

\* the files of the current directory the inner loop has already visited
ProcessedFiles ==
    {f \in po_files_and_dirs[directory_name] :
        \A i \in DOMAIN po_queue : po_queue[i] # f}

\* the file a descriptor describes
DescFile(desc) == IF argv.json_format THEN desc.name[2] ELSE desc.filename

\* the files described by a list of descriptors, in order
DescFiles(descs) == [i \in DOMAIN descs |-> DescFile(descs[i])]

InBuffer(f) == \E i \in DOMAIN buffer : DescFile(buffer[i]) = f.filename

\* the directory's files have all been visited and its statistics handled
Finished(d) ==
    /\ directory_name # 0
    /\ \/ d < directory_name
       \/ d = directory_name /\ pc \in {"directories", "done"}

\* the directory is in the output: its header was printed (text mode) or
\* its record was appended to the JSON array
Reported(d) ==
    IF argv.json_format
    THEN \E i \in DOMAIN dir_stats : dir_stats[i].name = <<d, "/">>
    ELSE \E i \in DOMAIN stdout :
            stdout[i].kind = "header" /\ stdout[i].directory_name = d

\* the mean reported for a reported directory
ReportedMean(d) ==
    IF argv.json_format
    THEN LET i == CHOOSE k \in DOMAIN dir_stats : dir_stats[k].name = <<d, "/">>
         IN dir_stats[i].pc_translated
    ELSE LET i == CHOOSE k \in DOMAIN stdout :
                     stdout[k].kind = "header" /\ stdout[k].directory_name = d
         IN stdout[i].mean

RECURSIVE SumPercent(_)
SumPercent(S) ==
    IF S = {} THEN 0
    ELSE LET f == CHOOSE x \in S : TRUE
         IN f.percent_translated + SumPercent(S \ {f})

Ascending(seq) == \A i, j \in DOMAIN seq : i < j => seq[i] < seq[j]

CountTrue(flags) == Cardinality({i \in DOMAIN flags : flags[i]})

\* what a list of print calls reports: per directory, in order, its name,
\* its mean and the files shown, in order
ReportOf(out, json_format) ==
    IF json_format
    THEN IF out = <<>> THEN <<>>
         ELSE [i \in DOMAIN out[1].doc |->
                 [name |-> out[1].doc[i].name[1],
                  mean |-> out[1].doc[i].pc_translated,
                  files |-> [j \in DOMAIN out[1].doc[i].files |->
                               out[1].doc[i].files[j].name[2]]]]
    ELSE [i \in 1..(Len(out) \div 2) |->
            [name |-> out[2 * i - 1].directory_name,
             mean |-> out[2 * i - 1].mean,
             files |-> [j \in DOMAIN out[2 * i].lines |-> out[2 * i].lines[j].filename]]]

\* every descriptor built so far has reserved_by = None
NoReservedBy ==
    /\ \A i \in DOMAIN buffer : buffer[i].reserved_by = {}
    /\ \A i \in DOMAIN dir_stats :
          \A j \in DOMAIN dir_stats[i].files : dir_stats[i].files[j].reserved_by = {}
    /\ \A i \in DOMAIN stdout :
          stdout[i].kind = "lines" =>
             \A j \in DOMAIN stdout[i].lines : stdout[i].lines[j].reserved_by = {}

(***************************************************************************)
(* C1                                                                      *)
(***************************************************************************)
\* C1: whatever thresholds initialize_arguments returned, whatever
\* fuzzy_only and the output mode, a visited file has a descriptor in its
\* directory's buffer exactly when it passed the fuzzy-only filter, is below
\* 100% and lies in [above, below]; a file at 100% is never in the buffer.
C1_ShownIffInBand ==
    pc = "files" =>
        \A f \in ProcessedFiles :
            /\ InBuffer(f) <=> (PassedFuzzy(f) /\ InBand(f))
            /\ f.percent_translated = 10000 => ~InBuffer(f)

\* a file without entries was visited and hidden although 100 lies in the
\* band, next to a file that is shown, in JSON mode
C1_Witness ==
    /\ pc = "files"
    /\ argv.json_format
    /\ Val(above) <= 100 /\ 100 <= Val(below)
    /\ buffer # <<>>
    /\ \E f \in ProcessedFiles : f.po_file_size = 0 /\ ~InBuffer(f)

(***************************************************************************)
(* C2                                                                      *)
(***************************************************************************)
\* C2: whenever both thresholds are supplied and above > below, the run ends
\* in initialize_arguments with the invalid-range error, before any file is
\* processed and without output.
C2_InvalidRangeAlwaysFails ==
    (/\ pc # "initialize_arguments"
     /\ argv.above # {} /\ argv.below # {}
     /\ Val(argv.above) > Val(argv.below))
    => (/\ pc = "raised"
        /\ error = "ValueError"
        /\ stdout = <<>>
        /\ buffer_add_calls = 0)

(***************************************************************************)
(* C3                                                                      *)
(***************************************************************************)
\* C3: when initialize_arguments returns, above is the supplied above or 0
\* when absent, and below is the supplied below or 100 when absent.
C3_ReturnsSuppliedOrDefault ==
    Normalized =>
        /\ above = (IF argv.above = {} THEN {0} ELSE argv.above)
        /\ below = (IF argv.below = {} THEN {100} ELSE argv.below)

(***************************************************************************)
(* C4                                                                      *)
(***************************************************************************)
\* C4: in both modes a directory is in the output exactly when its files
\* have been visited and at least one of them is shown under the thresholds
\* and the fuzzy-only filter.
C4_DirectoryReportedIffFileShown ==
    Normalized =>
        \A d \in DirNames :
            Reported(d) <=>
                (Finished(d) /\ \E f \in po_files_and_dirs[d] : PassedFuzzy(f) /\ InBand(f))

\* a finished run that reported one directory and omitted the other, whose
\* files are all complete or out of range
C4_Witness ==
    /\ pc = "done"
    /\ ~argv.fuzzy
    /\ Reported(1)
    /\ ~Reported(2)
    /\ Cardinality(po_files_and_dirs[2]) = 2

(***************************************************************************)
(* C5                                                                      *)
(***************************************************************************)
\* C5: the mean reported for a directory is the arithmetic mean, formatted
\* to two decimals, of percent_translated over all its files that passed the
\* fuzzy-only filter, shown or hidden.
C5_MeanOverAllPassedFiles ==
    Normalized =>
        \A d \in DirNames :
            Reported(d) =>
                LET passed == {f \in po_files_and_dirs[d] : PassedFuzzy(f)}
                IN /\ passed # {}
                   /\ ReportedMean(d) = RoundHalfEven(SumPercent(passed), Cardinality(passed))

\* a reported directory with a shown file, a hidden file and a file skipped
\* by fuzzy-only
C5_Witness ==
    /\ pc = "done"
    /\ argv.fuzzy
    /\ Reported(1)
    /\ \E f, g, h \in po_files_and_dirs[1] :
          /\ PassedFuzzy(f) /\ InBand(f)
          /\ PassedFuzzy(g) /\ ~InBand(g)
          /\ ~PassedFuzzy(h)

(***************************************************************************)
(* C6                                                                      *)
(***************************************************************************)
\* C6: a finished run reports the same directories, in the same order, with
\* the same shown files in the same order and the same mean as exec_potodo
\* does on the same inputs in the other output mode.
C6_ModesAgree ==
    pc = "done" =>
        ReportOf(stdout, argv.json_format)
            = ReportOf(ExecPotodo(po_files_and_dirs, RunCfg(~argv.json_format)),
                       ~argv.json_format)

\* a finished run that reported both directories and hid a file
C6_Witness ==
    /\ pc = "done"
    /\ Len(ReportOf(stdout, argv.json_format)) = 2
    /\ \E f \in po_files_and_dirs[1] : PassedFuzzy(f) /\ ~InBand(f)

(***************************************************************************)
(* C7                                                                      *)
(***************************************************************************)
\* C7: directories are emitted in ascending order and shown files in
\* ascending order within each; text mode prints a reportable directory at
\* the end of its inner loop, before any file of the next directory is
\* visited; JSON mode prints nothing until the outer loop is over and then
\* exactly one document holding every reportable directory.
C7_OutputOrder ==
    /\ ~argv.json_format =>
          /\ Len(stdout) % 2 = 0
          /\ \A i \in DOMAIN stdout :
                stdout[i].kind = (IF i % 2 = 1 THEN "header" ELSE "lines")
          /\ Ascending([i \in 1..(Len(stdout) \div 2) |-> stdout[2 * i - 1].directory_name])
          /\ \A i \in 1..(Len(stdout) \div 2) : Ascending(DescFiles(stdout[2 * i].lines))
          /\ pc = "files" =>
                \A i \in 1..(Len(stdout) \div 2) :
                    stdout[2 * i - 1].directory_name < directory_name
          /\ (pc \in {"directories", "done"} /\ buffer # <<>>) =>
                /\ stdout # <<>>
                /\ stdout[Len(stdout) - 1].directory_name = directory_name
                /\ stdout[Len(stdout)].lines = buffer
    /\ argv.json_format =>
          /\ pc # "done" => stdout = <<>>
          /\ pc = "done" => stdout = <<[kind |-> "json", doc |-> dir_stats]>>
          /\ Ascending([i \in DOMAIN dir_stats |-> dir_stats[i].name[1]])
          /\ \A i \in DOMAIN dir_stats : Ascending(DescFiles(dir_stats[i].files))
          /\ (pc \in {"directories", "done"} /\ buffer # <<>>) =>
                /\ dir_stats # <<>>
                /\ dir_stats[Len(dir_stats)].name[1] = directory_name
                /\ dir_stats[Len(dir_stats)].files = buffer

\* text mode: the first directory has been printed with two files and no
\* file of the second directory has been visited yet
C7_Witness ==
    /\ ~argv.json_format
    /\ pc = "files"
    /\ directory_name = 2
    /\ po_queue # <<>>
    /\ ProcessedFiles = {}
    /\ Len(stdout) = 2
    /\ Len(stdout[2].lines) = 2

(***************************************************************************)
(* C8                                                                      *)
(***************************************************************************)
\* C8 as stated: once initialize_arguments is over, get_reservation_list has
\* been called exactly once if neither offline nor hide_reserved is set and
\* never otherwise.
C8_FetchedOnceWheneverOnline ==
    pc # "initialize_arguments" =>
        fetch_calls = (IF ~argv.offline /\ ~argv.hide_reserved THEN 1 ELSE 0)

\* C8 as amended: once initialize_arguments is over, get_reservation_list
\* has been called exactly once if neither offline nor hide_reserved is set
\* and the thresholds passed the range check, and never otherwise; no file
\* is visited and nothing is printed before; without a call the map is
\* empty and no descriptor carries a reserver; a failed call ends the run
\* without output.
C8_FetchedOnceUnlessRangeError ==
    /\ pc = "initialize_arguments" =>
          fetch_calls = 0 /\ stdout = <<>> /\ buffer_add_calls = 0 /\ directory_name = 0
    /\ pc # "initialize_arguments" =>
          fetch_calls = (IF ~argv.offline /\ ~argv.hide_reserved /\ error # "ValueError"
                         THEN 1 ELSE 0)
    /\ fetch_calls = 0 => (issue_reservations = EmptyMap /\ NoReservedBy)
    /\ error = "ReservationUnavailable" =>
          /\ pc = "raised"
          /\ fetch_calls = 1
          /\ stdout = <<>>
          /\ buffer_add_calls = 0
          /\ directory_name = 0

\* a finished run that fetched the reservations once and shows a reserved
\* file
C8_Witness ==
    /\ pc = "done"
    /\ fetch_calls = 1
    /\ ~NoReservedBy

(***************************************************************************)
(* C9                                                                      *)
(***************************************************************************)
\* C9: after any number of buffer_add calls for a directory, folder_stats
\* and printed_list have one element per call and buffer has one descriptor
\* per True flag.
C9_ListsInLockstep ==
    /\ Len(folder_stats) = buffer_add_calls
    /\ Len(printed_list) = Len(folder_stats)
    /\ Len(buffer) = CountTrue(printed_list)

(***************************************************************************)
(* C10                                                                     *)
(***************************************************************************)
\* C10: whenever print_dir_stats or add_dir_stats is about to evaluate the
\* mean (the inner loop is over and a True flag is in printed_list),
\* folder_stats is not empty, and no run ends with StatisticsError.
C10_MeanNeverOfEmptyList ==
    /\ error # "StatisticsError"
    /\ (pc = "files" /\ po_queue = <<>> /\ (\E i \in DOMAIN printed_list : printed_list[i]))
          => folder_stats # <<>>

\* a finished run over a directory without files and a directory whose
\* files were all skipped by fuzzy-only
C10_Witness ==
    /\ pc = "done"
    /\ error = ""
    /\ argv.fuzzy
    /\ po_files_and_dirs[1] = {}
    /\ po_files_and_dirs[2] # {}
    /\ \A f \in po_files_and_dirs[2] : ~PassedFuzzy(f)
    /\ stdout = (IF argv.json_format THEN <<[kind |-> "json", doc |-> <<>>]>> ELSE <<>>)

====
